---- MODULE Spec2Model ----
(***************************************************************************)
(* FitMirror mobile front-end: ChatScreen, WorkoutsScreen and ProfileScreen *)
(* as state machines.  Each screen is a React function component: its       *)
(* useState cells are the variables, every event handler / async            *)
(* continuation / timer callback is one action.  A state update is on       *)
(* screen before the next event is handled, so a handler reads the current  *)
(* state; checkApiStatus, created by a mount-only effect, reads the state   *)
(* of the first render.  The screens share no state, so a behaviour         *)
(* exercises one screen, chosen in Init (`screen').                         *)
(***************************************************************************)
EXTENDS Integers, Sequences, FiniteSets, TLC

\* ------------------------------------------------------------------ bounds
\* Numbers of handler invocations a behaviour may start after the mount:
\* sendMessage calls that reach the request,
MaxSends == 2
\* analyses (pickVideo, recordVideo, useTestVideo, simulateAnalysisResult),
MaxAnalyses == 2
\* analyses in the behaviours that overlap a development mock with an upload,
MaxOverlappingAnalyses == 3
\* fetchReports calls (focus events and refreshes).
MaxFetches == 3

\* ------------------------------------------------------------------ text
\* Strings are sequences of one-character strings.
WS == {" ", "\n"}
\* U+0060 and U+2022, which a TLA+ string literal cannot hold
Backquote == "BACKQUOTE"
Bullet == "BULLET"
Digits == {"1"}

RECURSIVE TrimLeft(_)
TrimLeft(s) ==
    IF s # <<>> /\ Head(s) \in WS THEN TrimLeft(Tail(s)) ELSE s

RECURSIVE TrimRight(_)
TrimRight(s) ==
    IF s # <<>> /\ s[Len(s)] \in WS THEN TrimRight(SubSeq(s, 1, Len(s) - 1)) ELSE s

\* String.prototype.trim
trim(s) == TrimRight(TrimLeft(s))

\* s[i..j-1] as a sequence (empty when j <= i)
Slice(s, i, j) == SubSeq(s, i, j - 1)

\* first index k >= i with s[k] = "\n", or Len(s)+1: the end of the line
RECURSIVE LineEnd(_, _)
LineEnd(s, i) ==
    IF i > Len(s) \/ s[i] = "\n" THEN i ELSE LineEnd(s, i + 1)

\* first index k >= i that is not whitespace (\s matches newlines too)
RECURSIVE SkipWs(_, _)
SkipWs(s, i) ==
    IF i <= Len(s) /\ s[i] \in WS THEN SkipWs(s, i + 1) ELSE i

\* first index k >= i whose character is not in set cs
RECURSIVE SkipSet(_, _, _)
SkipSet(s, i, cs) ==
    IF i <= Len(s) /\ s[i] \in cs THEN SkipSet(s, i + 1, cs) ELSE i

\* ^ under the m flag: start of input or just after a line terminator
AtLineStart(s, i) == i = 1 \/ (i > 1 /\ i <= Len(s) + 1 /\ s[i - 1] = "\n")

\* Lazy (.*?) followed by delimiter d starting the search at j: the smallest
\* k >= j with s[k..] beginning with d and no "\n" in s[j..k-1]; 0 if none.
RECURSIVE FindClose(_, _, _)
FindClose(s, j, d) ==
    IF j + Len(d) - 1 > Len(s) THEN 0
    ELSE IF Slice(s, j, j + Len(d)) = d THEN j
    ELSE IF s[j] = "\n" THEN 0
    ELSE FindClose(s, j + 1, d)

\* s.replace(/(d1|d2|...)(.*?)\1/g, '$2') for the delimiters in ds
RECURSIVE StripPairs(_, _, _)
StripPairs(s, i, ds) ==
    IF i > Len(s) THEN <<>>
    ELSE LET open == {d \in ds : i + Len(d) - 1 <= Len(s) /\ Slice(s, i, i + Len(d)) = d
                                 /\ FindClose(s, i + Len(d), d) # 0}
         IN IF open = {} THEN <<s[i]>> \o StripPairs(s, i + 1, ds)
            ELSE LET d == CHOOSE x \in open : TRUE
                     k == FindClose(s, i + Len(d), d)
                 IN Slice(s, i + Len(d), k) \o StripPairs(s, k + Len(d), ds)

\* .replace(/(\*\*|__)(.*?)\1/g, '$2')
StripBold(s) == StripPairs(s, 1, {<<"*", "*">>, <<"_", "_">>})

\* .replace(/(\*|_)(.*?)\1/g, '$2')
StripItalic(s) == StripPairs(s, 1, {<<"*">>, <<"_">>})

\* .replace(/^(#+)\s+(.*)$/gm, '$2')
RECURSIVE StripHeadings(_, _)
StripHeadings(s, i) ==
    IF i > Len(s) THEN <<>>
    ELSE LET h == SkipSet(s, i, {"#"})
             w == SkipWs(s, h)
             e == LineEnd(s, w)
         IN IF AtLineStart(s, i) /\ h > i /\ w > h
            THEN Slice(s, w, e) \o StripHeadings(s, e)
            ELSE <<s[i]>> \o StripHeadings(s, i + 1)

\* .replace(/^[-*+]\s+(.*)$/gm, '<U+2022> $1')
RECURSIVE BulletLists(_, _)
BulletLists(s, i) ==
    IF i > Len(s) THEN <<>>
    ELSE LET w == SkipWs(s, i + 1)
             e == LineEnd(s, w)
         IN IF AtLineStart(s, i) /\ s[i] \in {"-", "*", "+"} /\ w > i + 1
            THEN <<Bullet, " ">> \o Slice(s, w, e) \o BulletLists(s, e)
            ELSE <<s[i]>> \o BulletLists(s, i + 1)

\* .replace(/^(\d+)\.\s+(.*)$/gm, '$1. $2')
RECURSIVE OrderedLists(_, _)
OrderedLists(s, i) ==
    IF i > Len(s) THEN <<>>
    ELSE LET n == SkipSet(s, i, Digits)
             w == SkipWs(s, n + 1)
             e == LineEnd(s, w)
         IN IF AtLineStart(s, i) /\ n > i /\ n <= Len(s) /\ s[n] = "." /\ w > n + 1
            THEN Slice(s, i, n) \o <<".", " ">> \o Slice(s, w, e) \o OrderedLists(s, e)
            ELSE <<s[i]>> \o OrderedLists(s, i + 1)

\* The text the render shows for a non-loading message
DisplayText(m) ==
    OrderedLists(BulletLists(StripHeadings(StripItalic(StripBold(m)), 1), 1), 1)

\* The replacement without the backquote in its character class
sanitize_keepsBackquote(s) == SelectSeq(s, LAMBDA c : c \notin {"*", "_", "#"})

\* errorMessage.replace(/[*_#<U+0060>]/g, '')
sanitize(s) == SelectSeq(s, LAMBDA c : c \notin {"*", "_", "#", Backquote})

\* ------------------------------------------------------------------ state
VARIABLES
    screen,          \* the screen component this behaviour exercises
    analysesAllowed, \* how many analyses this behaviour may start (a bound, never written)
    \* ---- ChatScreen (useState cells, ChatScreen.tsx:36-46)
    message,         \* the TextInput's text
    isLoading_c,     \* ChatScreen's isLoading
    apiAvailable,
    chatHistory,     \* sequence of ChatMessage
    now,             \* the instant new Date() returns, in minutes
    \* ---- WorkoutsScreen (useState cells, WorkoutsScreen.tsx:110-117)
    openWorkout,
    isLoading_w,     \* WorkoutsScreen's isLoading
    modalVisible,
    selectedExercise,
    analysisResult,
    showResult,
    reportHtml,
    showReportModal,
    mockTimers,      \* pending setTimeout callbacks of simulateAnalysisResult, oldest first
    \* ---- ProfileScreen (useState cells, ProfileScreen.tsx:29-33)
    reports,
    loading,
    isReportModalVisible,
    currentReportUrl,
    isWebViewLoading,
    lastResponse,    \* not program state: the outcome the latest completed fetchReports
                     \* call resumed with, Null before the first
    \* ---- environment
    pending,         \* promises not yet settled: HTTP requests (with their awaiting
                     \* handler's locals) and native dialogs
    sent,            \* log of the HTTP requests issued: <<[owner, endpoint]>>
    alert,           \* the Alert.alert call of the latest handler run, Null if it made none
    abandoned,       \* requests apiRequest gave up on; the server still works on them
    timers,          \* ids of the requests whose apiRequest setTimeout callback is scheduled
    nextInv          \* id of the next handler invocation

chatVars == <<message, isLoading_c, apiAvailable, chatHistory, now>>
wkVars == <<openWorkout, isLoading_w, modalVisible, selectedExercise, analysisResult,
            showResult, reportHtml, showReportModal, mockTimers>>
pfVars == <<reports, loading, isReportModalVisible, currentReportUrl, isWebViewLoading,
            lastResponse>>
envVars == <<pending, sent, abandoned, timers, nextInv>>
vars == <<screen, analysesAllowed, chatVars, wkVars, pfVars, envVars, alert>>

Screens == {"chat", "workouts", "profile"}

\* ------------------------------------------------------------------ requests
HttpEndpoints == {"/health", "/chat", "/analyze-exercise", "/get-analysis-reports", "report_url"}

NoText == <<>>
\* JavaScript null / undefined
Null == [null |-> TRUE]

\* A pending promise and the async function awaiting it.
\*   owner:   the handler invocation (0: the mount / first-focus effect)
\*   handler: the async function that resumes when the promise settles
\*   ctx:     the handler's local variables
Req(owner, handler, endpoint, ctx) ==
    [id |-> Len(sent) + 1, owner |-> owner, handler |-> handler, endpoint |-> endpoint,
     ctx |-> ctx]

IsHttp(r) == r.endpoint \in HttpEndpoints

\* Alert.alert(title, message)
Alert(title, msg) == alert' = [title |-> title, message |-> msg]
\* The handler run shows no alert
NoAlert == alert' = Null

\* await fetch(url): no AbortController, no timer
fetch(rest, owner, handler, endpoint, ctx) ==
    /\ pending' = rest \cup {Req(owner, handler, endpoint, ctx)}
    /\ sent' = Append(sent, [owner |-> owner, endpoint |-> endpoint])

\* apiRequest, lines 28-51: setTimeout(() => controller.abort(), timeout), then
\* await fetch(url, {signal})
apiRequest(rest, owner, handler, endpoint, ctx) ==
    /\ timers' = timers \cup {Len(sent) + 1}
    /\ pending' = rest \cup {Req(owner, handler, endpoint, ctx)}
    /\ sent' = Append(sent, [owner |-> owner, endpoint |-> endpoint])

\* apiRequest without its clearTimeout calls: the timer stays scheduled
clearTimeout_forgotten(ts, id) == ts

\* clearTimeout(timeoutId), lines 52 and 61
clearTimeout(ts, id) == ts \ {id}

\* An awaited native call (image picker, FileSystem.getInfoAsync): no HTTP request
awaitNative(rest, owner, handler, what, ctx) ==
    /\ pending' = rest \cup {[Req(owner, handler, what, ctx) EXCEPT !.id = 0]}
    /\ sent' = sent

\* ------------------------------------------------------------------ ChatScreen
GreetingText == <<"GREETING">>
ThinkingText == <<"THINKING">>
AgentUnavailableText == <<"AGENT_UNAVAILABLE">>
CannotConnectText == <<"CANNOT_CONNECT">>
ConnectionProblemText == <<"CONNECTION_PROBLEM">>
ApologyPrefix == <<"SORRY_PROBLEM", ":", " ">>
UnknownErrorText == <<"UNKNOWN_ERROR">>

\* What the user may type into the TextInput
InputTexts == {<<" ">>, <<" ", "a", "\n">>}

\* message fields of /chat response bodies
ReplyTexts == {<<"a", "b">>, <<"#", " ", "*", "*", "a", "*", "*">>}
ErrorTexts == {<<"*", "e", Backquote>>}

\* Outcomes of POST /chat as sendMessage sees them: fetch or response.json()
\* throws, or a parsed body {success, message?}
ChatResponses ==
    {[kind |-> "throw", success |-> FALSE, hasMessage |-> FALSE, message |-> NoText]}
    \cup {[kind |-> "json", success |-> TRUE, hasMessage |-> TRUE, message |-> t] : t \in ReplyTexts}
    \cup {[kind |-> "json", success |-> FALSE, hasMessage |-> TRUE, message |-> t] : t \in ErrorTexts}
    \cup {[kind |-> "json", success |-> FALSE, hasMessage |-> FALSE, message |-> NoText]}

\* Outcomes of GET /health as checkApiStatus sees them
HealthResponses == {"throw", "available", "unavailable"}

\* The instant ChatScreen mounts: one minute before midnight
MountMinute == 1439
\* The instants at which handlers run
Minutes == {MountMinute, MountMinute + 1}

\* toLocaleTimeString([], {hour: '2-digit', minute: '2-digit'}) of instant t: the
\* hour and the minute of the day
toLocaleTimeString(t) == <<(t \div 60) % 24, t % 60>>

\* interface ChatMessage built at instant t; absent optional flags are FALSE.
\* inv and created are not fields of the program's record: the handler invocation
\* that created the message (-1: initial state, 0: checkApiStatus) and the
\* instant of its new Date().
MessageAt(id, sender, text, isError, isWarning, isLoading, plain, inv, t) ==
    [id |-> id, sender |-> sender, message |-> text,
     timestamp |-> toLocaleTimeString(t), isError |-> isError,
     isWarning |-> isWarning, isLoading |-> isLoading, renderAsPlainText |-> plain,
     inv |-> inv, created |-> t]

\* A message built by the handler run of the current step
ChatMessage(id, sender, text, isError, isWarning, isLoading, plain, inv) ==
    MessageAt(id, sender, text, isError, isWarning, isLoading, plain, inv, now')

\* The clock when a handler runs: not before any earlier reading
ClockRead == now' \in {t \in Minutes : t >= now}

InitialHistory ==
    <<MessageAt(1, "bot", GreetingText, FALSE, FALSE, FALSE, FALSE, -1, MountMinute)>>

\* lines 254-275: the text a message's bubble shows
Displayed(chat) == IF chat.isLoading THEN chat.message ELSE DisplayText(chat.message)

\* A filter that removes nothing
RemoveId_keepsAll(hist, tempId) == hist

\* prev.filter(msg => msg.id !== tempId)
RemoveId(hist, tempId) == SelectSeq(hist, LAMBDA m : m.id # tempId)

ChatState0 ==
    /\ message = NoText
    /\ isLoading_c = FALSE
    /\ apiAvailable = TRUE
    /\ chatHistory = InitialHistory
    /\ now = MountMinute

\* ChatScreen mounted
ChatInit ==
    /\ screen = "chat"
    \* useEffect(..., []) has started checkApiStatus: GET /health is in flight
    /\ pending = {[id |-> 1, owner |-> 0, handler |-> "checkApiStatus",
                   endpoint |-> "/health", ctx |-> Null]}
    /\ sent = <<[owner |-> 0, endpoint |-> "/health"]>>
    /\ alert = Null
    /\ abandoned = {}
    /\ timers = {}
    /\ nextInv = 1

\* onChangeText={setMessage}
ChatType(t) ==
    /\ screen = "chat"
    /\ message # t
    /\ message' = t
    /\ NoAlert
    /\ UNCHANGED <<screen, analysesAllowed, isLoading_c, apiAvailable, chatHistory, now,
                   wkVars, pfVars, envVars>>

\* sendMessage, line 103: blank input
ChatSendBlank ==
    /\ screen = "chat"
    /\ trim(message) = NoText
    /\ NoAlert
    /\ UNCHANGED <<screen, analysesAllowed, chatVars, pfVars, wkVars, envVars>>

\* sendMessage, lines 106-113: API unavailable
ChatSendUnavailable ==
    /\ screen = "chat"
    /\ trim(message) # NoText
    /\ ~apiAvailable
    /\ Alert("ServiceUnavailable", "TryLater")
    /\ UNCHANGED <<screen, analysesAllowed, chatVars, pfVars, wkVars, pending, sent, abandoned, timers, nextInv>>

\* sendMessage that numbers its messages from the history of the first render
\* instead of the history it is called with
ChatSend_firstRenderIds ==
    /\ screen = "chat"
    /\ trim(message) # NoText
    /\ apiAvailable
    /\ nextInv <= MaxSends
    /\ ClockRead
    /\ LET userMessage == trim(message)
           newMessage == ChatMessage(Len(InitialHistory) + 1, "user", userMessage,
                                     FALSE, FALSE, FALSE, FALSE, nextInv)
           tempId == Len(InitialHistory) + 2
           loadingMessage == ChatMessage(tempId, "bot", ThinkingText,
                                         FALSE, FALSE, TRUE, FALSE, nextInv)
       IN /\ chatHistory' = chatHistory \o <<newMessage, loadingMessage>>
          /\ message' = NoText
          /\ isLoading_c' = TRUE
          /\ fetch(pending, nextInv, "sendMessage", "/chat",
                   [tempId |-> tempId, userMessage |-> userMessage])
    /\ nextInv' = nextInv + 1
    /\ NoAlert
    /\ UNCHANGED <<screen, analysesAllowed, apiAvailable, wkVars, pfVars, abandoned, timers>>

\* sendMessage, lines 115-150: up to the await of fetch
ChatSend ==
    /\ screen = "chat"
    /\ trim(message) # NoText
    /\ apiAvailable
    /\ nextInv <= MaxSends
    /\ ClockRead
    /\ LET userMessage == trim(message)
           newMessage == ChatMessage(Len(chatHistory) + 1, "user", userMessage,
                                     FALSE, FALSE, FALSE, FALSE, nextInv)
           tempId == Len(chatHistory) + 2
           loadingMessage == ChatMessage(tempId, "bot", ThinkingText,
                                         FALSE, FALSE, TRUE, FALSE, nextInv)
       IN /\ chatHistory' = chatHistory \o <<newMessage, loadingMessage>>
          /\ message' = NoText
          /\ isLoading_c' = TRUE
          /\ fetch(pending, nextInv, "sendMessage", "/chat",
                   [tempId |-> tempId, userMessage |-> userMessage])
    /\ nextInv' = nextInv + 1
    /\ NoAlert
    /\ UNCHANGED <<screen, analysesAllowed, apiAvailable, wkVars, pfVars, abandoned, timers>>

\* sendMessage with the reply passed through the error branch's sanitizer
ChatReplySuccess_sanitized(r, data) ==
    /\ data.kind = "json" /\ data.success
    /\ chatHistory' = Append(RemoveId(chatHistory, r.ctx.tempId),
                             ChatMessage(r.ctx.tempId, "bot", sanitize(data.message),
                                         FALSE, FALSE, FALSE, FALSE, r.owner))

\* sendMessage, lines 152-166: body parsed, success
ChatReplySuccess(r, data) ==
    /\ data.kind = "json" /\ data.success
    /\ chatHistory' = Append(RemoveId(chatHistory, r.ctx.tempId),
                             ChatMessage(r.ctx.tempId, "bot", data.message,
                                         FALSE, FALSE, FALSE, FALSE, r.owner))

\* sendMessage putting the error reply where the placeholder stood
ChatReplyError_inPlace(r, data) ==
    /\ data.kind = "json" /\ ~data.success
    /\ LET errorMessage == IF data.hasMessage /\ data.message # NoText
                           THEN data.message ELSE UnknownErrorText
           sanitizedErrorMessage == sanitize(errorMessage)
       IN chatHistory' = [i \in 1..Len(chatHistory) |->
                             IF chatHistory[i].id = r.ctx.tempId
                             THEN ChatMessage(r.ctx.tempId, "bot",
                                              ApologyPrefix \o sanitizedErrorMessage,
                                              TRUE, FALSE, FALSE, TRUE, r.owner)
                             ELSE chatHistory[i]]

\* sendMessage, lines 167-183: body parsed, success falsy
ChatReplyError(r, data) ==
    /\ data.kind = "json" /\ ~data.success
    /\ LET errorMessage == IF data.hasMessage /\ data.message # NoText
                           THEN data.message ELSE UnknownErrorText
           sanitizedErrorMessage == sanitize(errorMessage)
       IN chatHistory' = Append(RemoveId(chatHistory, r.ctx.tempId),
                                ChatMessage(r.ctx.tempId, "bot",
                                            ApologyPrefix \o sanitizedErrorMessage,
                                            TRUE, FALSE, FALSE, TRUE, r.owner))

\* sendMessage's catch without line 186: the placeholder is not removed
ChatReplyCatch_keepsPlaceholder(r, data) ==
    /\ data.kind = "throw"
    /\ chatHistory' = Append(chatHistory,
                             ChatMessage(r.ctx.tempId, "bot", ConnectionProblemText,
                                         TRUE, FALSE, FALSE, TRUE, r.owner))

\* sendMessage, lines 184-200: catch
ChatReplyCatch(r, data) ==
    /\ data.kind = "throw"
    /\ chatHistory' = Append(RemoveId(chatHistory, r.ctx.tempId),
                             ChatMessage(r.ctx.tempId, "bot", ConnectionProblemText,
                                         TRUE, FALSE, FALSE, TRUE, r.owner))

\* sendMessage resumes after its awaits (lines 152-203), finally included
ChatResponse(r, data) ==
    /\ screen = "chat"
    /\ r \in pending /\ r.handler = "sendMessage"
    /\ ClockRead
    /\ \/ ChatReplySuccess(r, data)
       \/ ChatReplyError(r, data)
       \/ ChatReplyCatch(r, data)
    /\ isLoading_c' = FALSE
    /\ pending' = pending \ {r}
    /\ NoAlert
    /\ UNCHANGED <<screen, analysesAllowed, message, apiAvailable, wkVars, pfVars, sent, abandoned, timers,
                   nextInv>>

\* checkApiStatus that never turns the chat off
HealthParsed_staysAvailable(status) ==
    /\ status # "throw"
    /\ apiAvailable' = TRUE
    /\ IF status # "available"
       THEN /\ ClockRead
            /\ chatHistory' = Append(chatHistory,
                                     ChatMessage(Len(InitialHistory) + 1, "bot",
                                                 AgentUnavailableText,
                                                 FALSE, TRUE, FALSE, FALSE, 0))
       ELSE UNCHANGED <<chatHistory, now>>
    /\ NoAlert

\* checkApiStatus, lines 60-75: body parsed.  chatHistory is the mount render's
\* value, InitialHistory.
HealthParsed(status) ==
    /\ status # "throw"
    /\ apiAvailable' = (status = "available")
    /\ IF status # "available"
       THEN /\ ClockRead
            /\ chatHistory' = Append(chatHistory,
                                     ChatMessage(Len(InitialHistory) + 1, "bot",
                                                 AgentUnavailableText,
                                                 FALSE, TRUE, FALSE, FALSE, 0))
       ELSE UNCHANGED <<chatHistory, now>>
    /\ NoAlert

\* checkApiStatus whose catch marks its message as a warning too
HealthCatch_alsoWarning(status) ==
    /\ status = "throw"
    /\ apiAvailable' = FALSE
    /\ ClockRead
    /\ chatHistory' = Append(chatHistory,
                             ChatMessage(Len(InitialHistory) + 1, "bot", CannotConnectText,
                                         TRUE, TRUE, FALSE, FALSE, 0))
    /\ Alert("ConnectFailed", "CannotConnect")

\* checkApiStatus, lines 76-96: catch
HealthCatch(status) ==
    /\ status = "throw"
    /\ apiAvailable' = FALSE
    /\ ClockRead
    /\ chatHistory' = Append(chatHistory,
                             ChatMessage(Len(InitialHistory) + 1, "bot", CannotConnectText,
                                         TRUE, FALSE, FALSE, FALSE, 0))
    /\ Alert("ConnectFailed", "CannotConnect")

\* checkApiStatus resumes after its awaits
ChatHealthResponse(r, status) ==
    /\ screen = "chat"
    /\ r \in pending /\ r.handler = "checkApiStatus"
    /\ \/ HealthParsed(status)
       \/ HealthCatch(status)
    /\ pending' = pending \ {r}
    /\ UNCHANGED <<screen, analysesAllowed, message, isLoading_c, wkVars, pfVars, sent, abandoned, timers,
                   nextInv>>

ChatNext ==
    \/ \E t \in InputTexts : ChatType(t)
    \/ ChatSendBlank
    \/ ChatSendUnavailable
    \/ ChatSend
    \/ \E r \in pending, data \in ChatResponses : ChatResponse(r, data)
    \/ \E r \in pending, status \in HealthResponses : ChatHealthResponse(r, status)


\* ------------------------------------------------------------------ WorkoutsScreen
\* eveningExercises[..].type (lines 681-722): the exercise whose analyse button
\* the modelled user presses.  All five types are handled alike (each has an
\* entry in TEST_VIDEOS and in possibleErrors); selectedExercise starts as
\* "squat" (line 113), so the requested type differs from the initial one.
ExerciseTypes == {"pushup"}
\* The section the modelled user toggles: the one that holds the exercise cards
\* (the night section, lines 537-565, has no analyse button)
WorkoutSections == {"evening"}
\* openWorkout = null
NoWorkout == "<null>"

\* possibleErrors, lines 367-373
possibleErrors(e) ==
    CASE e = "squat" -> <<"KneesIn", "WeightForward", "NotDeepEnough">>
      [] e = "pushup" -> <<"ShouldersSink", "HipsRaised", "ElbowAngle">>
      [] OTHER -> <<>>

\* TEST_VIDEOS, lines 100-107
HasTestVideo(e) == e \in {"squat", "pushup", "situp", "jumping_jack", "plank"}

\* Successive results of Math.random() in one run of simulateAnalysisResult, in
\* tenths: the draws of lines 361, 374, 377 and 381 (twice)
RandomRuns == {<<0, 0, 0, 0, 0>>, <<9, 9, 0, 9, 0>>, <<9, 9, 9, 0, 9>>}
\* Math.floor(Math.random() * n) for a draw r
FloorTimes(r, n) == (r * n) \div 10

\* A URL or path: absent ("" / undefined) has scheme ""
NoUrl == [scheme |-> "", content |-> Null]
ServerUrl == [scheme |-> "http", content |-> Null]
ServerPath == [scheme |-> "file", content |-> Null]
IsSet(u) == u.scheme # ""

\* Report pages.  inv is not program data: the invocation that produced the page.
Html(kind, about, items, inv) == [kind |-> kind, about |-> about, items |-> items, inv |-> inv]

\* encodeURIComponent / decodeURIComponent of a page, lines 400-403
encodeURIComponent(h) == [encoded |-> h]
decodeURIComponent(c) == c.encoded

\* interface AnalysisResult, lines 77-87 (first_timestamp of an error, which no
\* code reads, is left out).  inv is not program data: the invocation that
\* obtained the result.
AnalysisResult(success, msg, e, counter, errors, path, url, inv) ==
    [success |-> success, message |-> msg, exercise_type |-> e, counter |-> counter,
     processed_frames |-> 300, errors_detected |-> errors, report_path |-> path,
     report_url |-> url, inv |-> inv]

\* errors_detected with each count drawn one too high
MockErrors_countFromTwo(e, r2, r3, c1, c2) ==
    LET errors == possibleErrors(e)
        numErrors == FloorTimes(r3, 2) + 1
        counts == <<c1, c2>>
    IN IF r2 > 5 /\ Len(errors) > 0
       THEN [i \in 1..(IF numErrors < Len(errors) THEN numErrors ELSE Len(errors)) |->
                [type |-> errors[i], count |-> FloorTimes(counts[i], 5) + 2]]
       ELSE <<>>

\* errors_detected as the loop of lines 374-386 fills it
MockErrors(e, r2, r3, c1, c2) ==
    LET errors == possibleErrors(e)
        numErrors == FloorTimes(r3, 2) + 1
        counts == <<c1, c2>>
    IN IF r2 > 5 /\ Len(errors) > 0
       THEN [i \in 1..(IF numErrors < Len(errors) THEN numErrors ELSE Len(errors)) |->
                [type |-> errors[i], count |-> FloorTimes(counts[i], 5) + 1]]
       ELSE <<>>

\* simulatedHtml, lines 389-399
SimulatedHtml(e, errors, inv) == Html("mock", e, errors, inv)

\* mockResult with the counter's offset subtracted instead of added
MockResult_negative(e, r1, errors, inv) ==
    AnalysisResult(TRUE, "MockData", e, FloorTimes(r1, 10) - 5, errors, NoUrl,
                   [scheme |-> "data", content |-> encodeURIComponent(SimulatedHtml(e, errors, inv))],
                   inv)

\* mockResult, lines 357-400
MockResult(e, r1, errors, inv) ==
    AnalysisResult(TRUE, "MockData", e, FloorTimes(r1, 10) + 5, errors, NoUrl,
                   [scheme |-> "data", content |-> encodeURIComponent(SimulatedHtml(e, errors, inv))],
                   inv)

\* Parsed bodies of POST /analyze-exercise for exercise e
AnalyzeBodies(e, inv) ==
    {AnalysisResult(TRUE, "ServerDone", e, 3, <<>>, NoUrl, NoUrl, inv),
     AnalysisResult(TRUE, "ServerDone", e, 3, <<>>, ServerPath, NoUrl, inv),
     AnalysisResult(TRUE, "ServerDone", e, 3, <<>>, ServerPath, ServerUrl, inv)}
    \cup {AnalysisResult(FALSE, "ServerFailed", e, 0, <<>>, NoUrl, NoUrl, inv)}

\* The report modal is on screen (lines 630-661)
ReportModalShown == analysisResult # Null /\ reportHtml # Null /\ showReportModal

\* The ScrollView can be touched: no loading overlay (lines 417-422, absoluteFill,
\* zIndex 1000), no Modal and no system picker above it
PickerOpen == \E r \in pending : r.endpoint = "picker"
MainTouchable == ~isLoading_w /\ ~modalVisible /\ ~ReportModalShown /\ ~PickerOpen

\* The result card and its report button, lines 444-490
ResultCardShown == showResult /\ analysisResult # Null

\* The report button shown whenever some report page is held
ViewReportOffered_anyHtml ==
    /\ ResultCardShown
    /\ reportHtml # Null

ViewReportOffered ==
    /\ ResultCardShown
    /\ IsSet(analysisResult.report_path) \/ IsSet(analysisResult.report_url)
    /\ reportHtml # Null

WkState0 ==
    /\ openWorkout = NoWorkout
    /\ isLoading_w = FALSE
    /\ modalVisible = FALSE
    /\ selectedExercise = "squat"
    /\ analysisResult = Null
    /\ showResult = FALSE
    /\ reportHtml = Null
    /\ showReportModal = FALSE
    /\ mockTimers = <<>>

\* WorkoutsScreen mounted: useEffect(..., []) has started checkServerHealth
WkInit ==
    /\ screen = "workouts"
    /\ pending = {[id |-> 1, owner |-> 0, handler |-> "checkServerHealth",
                   endpoint |-> "/health", ctx |-> Null]}
    /\ sent = <<[owner |-> 0, endpoint |-> "/health"]>>
    /\ alert = Null
    /\ abandoned = {}
    /\ timers = {1}
    /\ nextInv = 1


\* ---- results of apiRequest as its caller sees them
Json(data) == [kind |-> "json", data |-> data]
Thrown(msg) == [kind |-> "error", message |-> msg]

\* simulateAnalysisResult, lines 352-413, up to scheduling the timer; busy is
\* the value isLoading is left with when the caller's synchronous code ends
simulateAnalysisResult(exerciseType, inv, busy) ==
    \E rnd \in RandomRuns :
        LET mockResult == MockResult(exerciseType, rnd[1],
                                     MockErrors(exerciseType, rnd[2], rnd[3], rnd[4], rnd[5]),
                                     inv)
        IN /\ modalVisible' = FALSE
           /\ isLoading_w' = busy
           /\ showReportModal' = FALSE
           /\ reportHtml' = IF IsSet(mockResult.report_url)
                            THEN decodeURIComponent(mockResult.report_url.content)
                            ELSE IF IsSet(mockResult.report_path)
                                 THEN Html("mockPath", exerciseType, <<>>, inv)
                                 ELSE Null
           /\ mockTimers' = Append(mockTimers, mockResult)
           /\ UNCHANGED <<openWorkout, selectedExercise, analysisResult, showResult>>

\* checkServerHealth, lines 153-173, after await apiRequest('/health')
checkServerHealthResume(r, res) ==
    /\ IF res.kind = "json"
       THEN IF res.data.agent_status # "available"
            THEN Alert("ServerWarning", "AnalysisMayBeUnavailable")
            ELSE NoAlert
       ELSE Alert("ConnectionError", "CannotConnect")
    /\ pending' = pending \ {r}
    /\ UNCHANGED <<wkVars, sent>>

\* uploadVideo that falls back to a mock result, as useTestVideo does
uploadVideoResume_fallsBack(r, res) ==
    IF res.kind = "json" /\ res.data.success
    THEN /\ analysisResult' = res.data
         /\ showResult' = TRUE
         /\ IF IsSet(res.data.report_url)
            THEN /\ fetch(pending \ {r}, r.owner, "uploadVideo", "report_url",
                          [exercise |-> r.ctx.exercise, data |-> res.data])
                 /\ UNCHANGED <<isLoading_w, reportHtml>>
            ELSE /\ reportHtml' = IF IsSet(res.data.report_path)
                                  THEN Html("pathOnly", res.data.exercise_type, <<>>, r.owner)
                                  ELSE reportHtml
                 /\ isLoading_w' = FALSE
                 /\ pending' = pending \ {r}
                 /\ UNCHANGED sent
         /\ NoAlert
         /\ UNCHANGED <<openWorkout, modalVisible, selectedExercise, showReportModal,
                        mockTimers>>
    ELSE /\ simulateAnalysisResult(r.ctx.exercise, r.owner, FALSE)
         /\ NoAlert
         /\ pending' = pending \ {r}
         /\ UNCHANGED sent

\* uploadVideo, lines 254-291, after await apiRequest('/analyze-exercise')
uploadVideoResume(r, res) ==
    IF res.kind = "json" /\ res.data.success
    THEN /\ analysisResult' = res.data
         /\ showResult' = TRUE
         /\ IF IsSet(res.data.report_url)
            THEN /\ fetch(pending \ {r}, r.owner, "uploadVideo", "report_url",
                          [exercise |-> r.ctx.exercise, data |-> res.data])
                 /\ UNCHANGED <<isLoading_w, reportHtml>>
            ELSE /\ reportHtml' = IF IsSet(res.data.report_path)
                                  THEN Html("pathOnly", res.data.exercise_type, <<>>, r.owner)
                                  ELSE reportHtml
                 /\ isLoading_w' = FALSE
                 /\ pending' = pending \ {r}
                 /\ UNCHANGED sent
         /\ NoAlert
         /\ UNCHANGED <<openWorkout, modalVisible, selectedExercise, showReportModal,
                        mockTimers>>
    ELSE /\ IF res.kind = "json"
            THEN Alert("AnalysisFailed", res.data.message)
            ELSE Alert("Error", res.message)
         /\ isLoading_w' = FALSE
         /\ pending' = pending \ {r}
         /\ UNCHANGED <<openWorkout, modalVisible, selectedExercise, analysisResult,
                        showResult, reportHtml, showReportModal, mockTimers, sent>>

\* useTestVideo that sends the request again when it has failed
useTestVideoResume_retries(r, res) ==
    /\ IF res.kind = "json" /\ res.data.success
       THEN /\ analysisResult' = res.data
            /\ showResult' = TRUE
            /\ isLoading_w' = FALSE
            /\ pending' = pending \ {r}
            /\ UNCHANGED <<sent>>
       ELSE /\ pending' = (pending \ {r}) \cup {[r EXCEPT !.id = Len(sent) + 1]}
            /\ sent' = Append(sent, [owner |-> r.owner, endpoint |-> r.endpoint])
            /\ UNCHANGED <<analysisResult, showResult, isLoading_w>>
    /\ NoAlert
    /\ UNCHANGED <<openWorkout, modalVisible, selectedExercise, reportHtml,
                   showReportModal, mockTimers>>

\* useTestVideo, lines 325-348, after await apiRequest('/analyze-exercise')
useTestVideoResume(r, res) ==
    /\ IF res.kind = "json" /\ res.data.success
       THEN /\ analysisResult' = res.data
            /\ showResult' = TRUE
            /\ isLoading_w' = FALSE
            /\ UNCHANGED <<openWorkout, modalVisible, selectedExercise, reportHtml,
                           showReportModal, mockTimers>>
       ELSE simulateAnalysisResult(r.ctx.exercise, r.owner, FALSE)
    /\ pending' = pending \ {r}
    /\ NoAlert
    /\ UNCHANGED <<sent>>

\* The caller of apiRequest resumes with res
Resume(r, res) ==
    CASE r.handler = "checkServerHealth" -> checkServerHealthResume(r, res)
      [] r.handler = "uploadVideo" -> uploadVideoResume(r, res)
      [] r.handler = "useTestVideo" -> useTestVideoResume(r, res)

\* r is awaited inside apiRequest (the call sites of lines 156, 254 and 325)
ViaApiRequest(r) == screen = "workouts" /\ r \in pending /\ r.endpoint \in {"/health", "/analyze-exercise"}

\* Bodies a server may send, by endpoint
Bodies(r) ==
    IF r.endpoint = "/health"
    THEN {[agent_status |-> "available"], [agent_status |-> "unavailable"]}
    ELSE IF r.endpoint = "/analyze-exercise"
         THEN AnalyzeBodies(r.ctx.exercise, r.owner)
         ELSE {}

\* What apiRequest returns or throws once fetch has settled, lines 51-66 (the
\* timer is cleared on each of these paths, so r leaves pending with its timer):
\* fetch rejects, the response is not ok, the body does not parse, or the body
ApiOutcomes(r) ==
    {Thrown("NetworkError"), Thrown("ApiError"), Thrown("SyntaxError")}
    \cup {Json(body) : body \in Bodies(r)}

\* apiRequest, lines 51-66: fetch settles before the timer fires
ApiSettles(r, res) ==
    /\ screen = "workouts"
    /\ ViaApiRequest(r)
    /\ Resume(r, res)
    /\ timers' = clearTimeout(timers, r.id)
    /\ UNCHANGED <<screen, analysesAllowed, chatVars, pfVars, abandoned, nextInv>>

\* apiRequest, lines 30 and 60-64: the timer fires first, controller.abort()
\* rejects the pending fetch with AbortError and the dedicated timeout error is
\* thrown.  The server is not told: its work on the request goes on.
ApiTimeout(r) ==
    /\ screen = "workouts"
    /\ ViaApiRequest(r) /\ r.id \in timers
    /\ Resume(r, Thrown("RequestTimeout"))
    /\ timers' = clearTimeout(timers \ {r.id}, r.id)
    /\ abandoned' = abandoned \cup {r}
    /\ UNCHANGED <<screen, analysesAllowed, chatVars, pfVars, nextInv>>

\* The server answers a request whose fetch was aborted: nothing awaits it
LateResponse(r) ==
    /\ screen = "workouts"
    /\ r \in abandoned
    /\ abandoned' = abandoned \ {r}
    /\ NoAlert
    /\ UNCHANGED <<screen, analysesAllowed, chatVars, pfVars, wkVars, pending, sent, timers, nextInv>>

\* uploadVideo, lines 262-274 and 289-291: await fetch(data.report_url) settles
\* (outcome "ok": 2xx and text read; "notok": non-2xx; "throw": fetch or text() throws)
ReportFetched(r, outcome) ==
    /\ screen = "workouts"
    /\ r \in pending /\ r.endpoint = "report_url"
    /\ reportHtml' = CASE outcome = "ok" -> Html("fetched", r.ctx.data.exercise_type, <<>>, r.owner)
                       [] outcome = "notok" -> Html("loadFailed", r.ctx.data.exercise_type, <<>>, r.owner)
                       [] outcome = "throw" -> Html("loadError", r.ctx.data.exercise_type, <<>>, r.owner)
    /\ isLoading_w' = FALSE
    /\ pending' = pending \ {r}
    /\ NoAlert
    /\ UNCHANGED <<screen, analysesAllowed, chatVars, pfVars, openWorkout, modalVisible, selectedExercise,
                   analysisResult, showResult, showReportModal, mockTimers, sent,
                   abandoned, timers, nextInv>>

\* toggleWorkout that closes whatever is open instead of switching sections
toggleWorkout_closesAny(workout) ==
    /\ screen = "workouts"
    /\ MainTouchable
    /\ openWorkout' = IF openWorkout # NoWorkout THEN NoWorkout ELSE workout
    /\ NoAlert
    /\ UNCHANGED <<screen, analysesAllowed, chatVars, pfVars, isLoading_w, modalVisible, selectedExercise,
                   analysisResult, showResult, reportHtml, showReportModal, mockTimers,
                   envVars>>

\* toggleWorkout, lines 179-185
toggleWorkout(workout) ==
    /\ screen = "workouts"
    /\ MainTouchable
    /\ openWorkout' = IF openWorkout = workout THEN NoWorkout ELSE workout
    /\ NoAlert
    /\ UNCHANGED <<screen, analysesAllowed, chatVars, pfVars, isLoading_w, modalVisible, selectedExercise,
                   analysisResult, showResult, reportHtml, showReportModal, mockTimers,
                   envVars>>

\* openAnalysisModal, lines 188-191; the exercise cards exist while the
\* evening section is open (lines 519-530)
openAnalysisModal(exercise) ==
    /\ screen = "workouts"
    /\ MainTouchable /\ openWorkout = "evening"
    /\ selectedExercise' = exercise
    /\ modalVisible' = TRUE
    /\ NoAlert
    /\ UNCHANGED <<screen, analysesAllowed, chatVars, pfVars, openWorkout, isLoading_w, analysisResult, showResult,
                   reportHtml, showReportModal, mockTimers, envVars>>

\* line 448: the result card's close button
CloseResult ==
    /\ screen = "workouts"
    /\ MainTouchable /\ ResultCardShown
    /\ showResult' = FALSE
    /\ NoAlert
    /\ UNCHANGED <<screen, analysesAllowed, chatVars, pfVars, openWorkout, isLoading_w, modalVisible,
                   selectedExercise, analysisResult, reportHtml, showReportModal,
                   mockTimers, envVars>>

\* lines 473-487: the report button's onPress
ViewReport ==
    /\ screen = "workouts"
    /\ MainTouchable /\ ViewReportOffered
    /\ IF reportHtml # Null
       THEN showReportModal' = TRUE /\ NoAlert
       ELSE Alert("ReportUnavailable", "NotLoaded") /\ UNCHANGED showReportModal
    /\ UNCHANGED <<screen, analysesAllowed, chatVars, pfVars, openWorkout, isLoading_w, modalVisible,
                   selectedExercise, analysisResult, showResult, reportHtml, mockTimers,
                   pending, sent, abandoned, timers, nextInv>>

SourceModalTouchable == modalVisible /\ ~PickerOpen

\* lines 577 and 583: the source modal is dismissed
CloseModal ==
    /\ screen = "workouts"
    /\ SourceModalTouchable
    /\ modalVisible' = FALSE
    /\ NoAlert
    /\ UNCHANGED <<screen, analysesAllowed, chatVars, pfVars, openWorkout, isLoading_w, selectedExercise,
                   analysisResult, showResult, reportHtml, showReportModal, mockTimers,
                   envVars>>

\* pickVideo / recordVideo, lines 194-201 and 213-221: the system picker or camera
\* opens; selectedExercise is the value uploadVideo's closure will read
LaunchPicker(source) ==
    /\ screen = "workouts"
    /\ SourceModalTouchable
    /\ nextInv <= analysesAllowed
    /\ awaitNative(pending, nextInv, "uploadVideo", "picker", [exercise |-> selectedExercise])
    /\ nextInv' = nextInv + 1
    /\ NoAlert
    /\ UNCHANGED <<screen, analysesAllowed, chatVars, pfVars, wkVars, abandoned, timers>>

\* uploadVideo that also drops the previous result when it starts
uploadVideo_clearsResult(r) ==
    /\ isLoading_w' = TRUE
    /\ modalVisible' = FALSE
    /\ reportHtml' = Null
    /\ showReportModal' = FALSE
    /\ analysisResult' = Null
    /\ awaitNative(pending \ {r}, r.owner, "uploadVideo", "getInfoAsync", r.ctx)
    /\ NoAlert
    /\ UNCHANGED <<openWorkout, selectedExercise, showResult, mockTimers>>

\* uploadVideo, lines 233-240: up to await FileSystem.getInfoAsync
uploadVideo(r) ==
    /\ isLoading_w' = TRUE
    /\ modalVisible' = FALSE
    /\ reportHtml' = Null
    /\ showReportModal' = FALSE
    /\ awaitNative(pending \ {r}, r.owner, "uploadVideo", "getInfoAsync", r.ctx)
    /\ NoAlert
    /\ UNCHANGED <<openWorkout, selectedExercise, analysisResult, showResult, mockTimers>>

\* pickVideo / recordVideo that dismiss the source modal when the picker is
\* cancelled
PickerResult_cancelCloses(r, outcome) ==
    /\ screen = "workouts"
    /\ r \in pending /\ r.endpoint = "picker"
    /\ CASE outcome = "asset" -> uploadVideo(r)
         [] outcome = "canceled" ->
                /\ pending' = pending \ {r}
                /\ NoAlert
                /\ modalVisible' = FALSE
                /\ UNCHANGED <<openWorkout, isLoading_w, selectedExercise, analysisResult,
                               showResult, reportHtml, showReportModal, mockTimers, sent>>
         [] outcome = "throw" ->
                /\ Alert("Error", "PickerFailed")
                /\ pending' = pending \ {r}
                /\ UNCHANGED <<wkVars, sent>>
    /\ UNCHANGED <<screen, analysesAllowed, chatVars, pfVars, abandoned, timers, nextInv>>

\* pickVideo / recordVideo, lines 202-209 and 222-229: the picker returns
PickerResult(r, outcome) ==
    /\ screen = "workouts"
    /\ r \in pending /\ r.endpoint = "picker"
    /\ CASE outcome = "asset" -> uploadVideo(r)
         [] outcome = "canceled" ->
                /\ pending' = pending \ {r}
                /\ NoAlert
                /\ UNCHANGED <<wkVars, sent>>
         [] outcome = "throw" ->
                /\ Alert("Error", "PickerFailed")
                /\ pending' = pending \ {r}
                /\ UNCHANGED <<wkVars, sent>>
    /\ UNCHANGED <<screen, analysesAllowed, chatVars, pfVars, abandoned, timers, nextInv>>

\* uploadVideo, lines 240-254 and 283-291: getInfoAsync settles
FileInfo(r, outcome) ==
    /\ screen = "workouts"
    /\ r \in pending /\ r.endpoint = "getInfoAsync"
    /\ IF outcome = "exists"
       THEN /\ apiRequest(pending \ {r}, r.owner, "uploadVideo", "/analyze-exercise", r.ctx)
            /\ NoAlert
            /\ UNCHANGED <<wkVars>>
       ELSE /\ Alert("Error", IF outcome = "missing" THEN "FileMissing" ELSE "FileSystemError")
            /\ isLoading_w' = FALSE
            /\ pending' = pending \ {r}
            /\ UNCHANGED <<openWorkout, modalVisible, selectedExercise, analysisResult,
                           showResult, reportHtml, showReportModal, mockTimers, sent,
                           timers>>
    /\ UNCHANGED <<screen, analysesAllowed, chatVars, pfVars, abandoned, nextInv>>

\* useTestVideo, lines 295-325: up to await apiRequest (line 610 passes
\* selectedExercise)
useTestVideo(exerciseType) ==
    /\ screen = "workouts"
    /\ SourceModalTouchable
    /\ nextInv <= analysesAllowed
    /\ IF ~HasTestVideo(exerciseType)
       THEN /\ simulateAnalysisResult(exerciseType, nextInv, FALSE)
            /\ UNCHANGED <<pending, sent, timers>>
       ELSE /\ modalVisible' = FALSE
            /\ isLoading_w' = TRUE
            /\ apiRequest(pending, nextInv, "useTestVideo", "/analyze-exercise",
                          [exercise |-> exerciseType])
            /\ UNCHANGED <<openWorkout, selectedExercise, analysisResult, showResult,
                           reportHtml, showReportModal, mockTimers>>
    /\ nextInv' = nextInv + 1
    /\ NoAlert
    /\ UNCHANGED <<screen, analysesAllowed, chatVars, pfVars, abandoned>>

\* line 618: the "simulate" button calls simulateAnalysisResult(selectedExercise)
SimulateButton ==
    /\ screen = "workouts"
    /\ SourceModalTouchable
    /\ nextInv <= analysesAllowed
    /\ simulateAnalysisResult(selectedExercise, nextInv, TRUE)
    /\ nextInv' = nextInv + 1
    /\ NoAlert
    /\ UNCHANGED <<screen, analysesAllowed, chatVars, pfVars, pending, sent, abandoned, timers>>

\* simulateAnalysisResult, lines 408-412: the setTimeout callback runs
MockTimerFires ==
    /\ screen = "workouts"
    /\ mockTimers # <<>>
    /\ analysisResult' = Head(mockTimers)
    /\ showResult' = TRUE
    /\ isLoading_w' = FALSE
    /\ mockTimers' = Tail(mockTimers)
    /\ NoAlert
    /\ UNCHANGED <<screen, analysesAllowed, chatVars, pfVars, openWorkout, modalVisible, selectedExercise,
                   reportHtml, showReportModal, envVars>>

\* lines 635 and 640: the report modal is dismissed
CloseReportModal ==
    /\ screen = "workouts"
    /\ ReportModalShown
    /\ showReportModal' = FALSE
    /\ NoAlert
    /\ UNCHANGED <<screen, analysesAllowed, chatVars, pfVars, openWorkout, isLoading_w, modalVisible,
                   selectedExercise, analysisResult, showResult, reportHtml, mockTimers,
                   envVars>>

\* handleWebViewError that alerts and leaves the report modal open
handleWebViewError_keepsModal ==
    /\ screen = "workouts"
    /\ ReportModalShown
    /\ Alert("ReportLoadError", "CannotShowReport")
    /\ UNCHANGED <<screen, analysesAllowed, chatVars, pfVars, openWorkout, isLoading_w, modalVisible,
                   selectedExercise, analysisResult, showResult, reportHtml, mockTimers,
                   pending, sent, abandoned, timers, nextInv, showReportModal>>

\* handleWebViewError, lines 120-125
handleWebViewError ==
    /\ screen = "workouts"
    /\ ReportModalShown
    /\ Alert("ReportLoadError", "CannotShowReport")
    /\ showReportModal' = FALSE
    /\ UNCHANGED <<screen, analysesAllowed, chatVars, pfVars, openWorkout, isLoading_w, modalVisible,
                   selectedExercise, analysisResult, showResult, reportHtml, mockTimers,
                   pending, sent, abandoned, timers, nextInv>>

\* handleWebViewHttpError, lines 127-136
handleWebViewHttpError ==
    /\ screen = "workouts"
    /\ ReportModalShown
    /\ Alert("ReportResourceError", "PartsMayNotLoad")
    /\ UNCHANGED <<screen, analysesAllowed, chatVars, pfVars, wkVars, pending, sent, abandoned, timers, nextInv>>

WkNext ==
    \/ \E w \in WorkoutSections : toggleWorkout(w)
    \/ \E e \in ExerciseTypes : openAnalysisModal(e)
    \/ CloseResult
    \/ ViewReport
    \/ CloseModal
    \/ \E source \in {"pickVideo", "recordVideo"} : LaunchPicker(source)
    \/ \E r \in pending, outcome \in {"asset", "canceled", "throw"} : PickerResult(r, outcome)
    \/ \E r \in pending, outcome \in {"exists", "missing", "throw"} : FileInfo(r, outcome)
    \/ useTestVideo(selectedExercise)
    \/ SimulateButton
    \/ MockTimerFires
    \/ CloseReportModal
    \/ handleWebViewError
    \/ handleWebViewHttpError
    \/ \E r \in pending : \E res \in ApiOutcomes(r) : ApiSettles(r, res)
    \/ \E r \in pending : ApiTimeout(r)
    \/ \E r \in abandoned : LateResponse(r)
    \/ \E r \in pending, outcome \in {"ok", "notok", "throw"} : ReportFetched(r, outcome)

\* ------------------------------------------------------------------ ProfileScreen
\* interface Report, lines 16-22: the fields the handlers read
Report(filename, url) == [filename |-> filename, report_url |-> url]

\* reports arrays a server may send
ReportLists == {<<>>, <<Report("f1", ServerUrl), Report("f2", NoUrl)>>}

\* Outcomes of GET /get-analysis-reports as fetchReports sees them: fetch or
\* response.json() throws, the response is not ok, or a parsed body
ReportsResponses ==
    {[kind |-> k, success |-> FALSE, isArray |-> FALSE, reports |-> <<>>] : k \in {"throw", "notok"}}
    \cup {[kind |-> "json", success |-> TRUE, isArray |-> TRUE, reports |-> l] : l \in ReportLists}
    \cup {[kind |-> "json", success |-> b, isArray |-> ~b, reports |-> <<>>] : b \in BOOLEAN}

\* lines 142-188: the report modal is on screen
ProfileModalShown == IsSet(currentReportUrl) /\ isReportModalVisible
\* lines 115-140: the FlatList is and nothing covers it
ListTouchable == ~(loading /\ reports = <<>>) /\ ~ProfileModalShown

PfState0 ==
    /\ reports = <<>>
    /\ loading = TRUE
    /\ isReportModalVisible = FALSE
    /\ currentReportUrl = NoUrl
    /\ isWebViewLoading = FALSE
    /\ lastResponse = Null

\* ProfileScreen focused for the first time: useFocusEffect has started fetchReports
PfInit ==
    /\ screen = "profile"
    /\ pending = {[id |-> 1, owner |-> 0, handler |-> "fetchReports",
                   endpoint |-> "/get-analysis-reports", ctx |-> Null]}
    /\ sent = <<[owner |-> 0, endpoint |-> "/get-analysis-reports"]>>
    /\ alert = Null
    /\ abandoned = {}
    /\ timers = {}
    /\ nextInv = 1

\* fetchReports, lines 35-39: up to the await of fetch
fetchReports ==
    /\ nextInv <= MaxFetches
    /\ loading' = TRUE
    /\ fetch(pending, nextInv, "fetchReports", "/get-analysis-reports", Null)
    /\ nextInv' = nextInv + 1
    /\ NoAlert
    /\ UNCHANGED <<screen, analysesAllowed, chatVars, wkVars, lastResponse, reports, isReportModalVisible,
                   currentReportUrl, isWebViewLoading, abandoned, timers>>

\* useFocusEffect, lines 63-70: the screen regains focus
ProfileFocus ==
    /\ screen = "profile"
    /\ ~ProfileModalShown
    /\ fetchReports

\* line 134: the refresh button of the empty list
RefreshButton ==
    /\ screen = "profile"
    /\ ListTouchable /\ reports = <<>> /\ ~loading
    /\ fetchReports

\* lines 138-139: pull to refresh; the control takes no pull while refreshing
PullToRefresh ==
    /\ screen = "profile"
    /\ ListTouchable /\ ~loading
    /\ fetchReports

\* fetchReports whose failure paths leave the list as it was
fetchReportsResume_keepsOnFailure(r, resp) ==
    /\ screen = "profile"
    /\ r \in pending /\ r.handler = "fetchReports"
    /\ reports' = IF resp.kind = "json" /\ resp.success /\ resp.isArray
                  THEN resp.reports
                  ELSE reports
    /\ loading' = FALSE
    /\ lastResponse' = resp
    /\ pending' = pending \ {r}
    /\ NoAlert
    /\ UNCHANGED <<screen, analysesAllowed, chatVars, wkVars, isReportModalVisible,
                   currentReportUrl, isWebViewLoading, sent, abandoned, timers, nextInv>>

\* fetchReports, lines 40-60: resumes after its awaits, finally included
fetchReportsResume(r, resp) ==
    /\ screen = "profile"
    /\ r \in pending /\ r.handler = "fetchReports"
    /\ reports' = IF resp.kind = "json" /\ resp.success /\ resp.isArray
                  THEN resp.reports
                  ELSE <<>>
    /\ loading' = FALSE
    /\ lastResponse' = resp
    /\ pending' = pending \ {r}
    /\ NoAlert
    /\ UNCHANGED <<screen, analysesAllowed, chatVars, wkVars, isReportModalVisible, currentReportUrl,
                   isWebViewLoading, sent, abandoned, timers, nextInv>>

\* handleReportItemPress that takes the pressed report off the list
handleReportItemPress_removes(report) ==
    /\ screen = "profile"
    /\ ListTouchable
    /\ \E i \in 1..Len(reports) : reports[i] = report
    /\ IF IsSet(report.report_url)
       THEN /\ currentReportUrl' = report.report_url
            /\ isReportModalVisible' = TRUE
            /\ NoAlert
       ELSE /\ Alert("CannotOpenReport", "NoUrl")
            /\ UNCHANGED <<currentReportUrl, isReportModalVisible>>
    /\ reports' = SelectSeq(reports, LAMBDA x : x # report)
    /\ UNCHANGED <<screen, analysesAllowed, chatVars, wkVars, lastResponse, loading, isWebViewLoading,
                   envVars>>

\* handleReportItemPress, lines 72-80
handleReportItemPress(report) ==
    /\ screen = "profile"
    /\ ListTouchable
    /\ \E i \in 1..Len(reports) : reports[i] = report
    /\ IF IsSet(report.report_url)
       THEN /\ currentReportUrl' = report.report_url
            /\ isReportModalVisible' = TRUE
            /\ NoAlert
       ELSE /\ Alert("CannotOpenReport", "NoUrl")
            /\ UNCHANGED <<currentReportUrl, isReportModalVisible>>
    /\ UNCHANGED <<screen, analysesAllowed, chatVars, wkVars, lastResponse, reports, loading, isWebViewLoading, envVars>>

\* Closing the report modal without forgetting the URL
ProfileCloseModal_keepsUrl ==
    /\ screen = "profile"
    /\ ProfileModalShown
    /\ isReportModalVisible' = FALSE
    /\ NoAlert
    /\ UNCHANGED <<screen, analysesAllowed, chatVars, wkVars, lastResponse, reports, loading, isWebViewLoading, envVars,
                   currentReportUrl>>

\* lines 147-150 and 155-158: the report modal is dismissed
ProfileCloseModal ==
    /\ screen = "profile"
    /\ ProfileModalShown
    /\ isReportModalVisible' = FALSE
    /\ currentReportUrl' = NoUrl
    /\ NoAlert
    /\ UNCHANGED <<screen, analysesAllowed, chatVars, wkVars, lastResponse, reports, loading, isWebViewLoading, envVars>>

\* lines 166-167: onLoadStart / onLoadEnd
WebViewLoad(started) ==
    /\ screen = "profile"
    /\ ProfileModalShown
    /\ isWebViewLoading # started
    /\ isWebViewLoading' = started
    /\ NoAlert
    /\ UNCHANGED <<screen, analysesAllowed, chatVars, wkVars, lastResponse, reports, loading, isReportModalVisible,
                   currentReportUrl, envVars>>

\* handleWebViewError / handleWebViewHttpError of ProfileScreen, lines 82-97
ProfileWebViewError(kind) ==
    /\ screen = "profile"
    /\ ProfileModalShown
    /\ Alert(kind, "ReportContent")
    /\ UNCHANGED <<screen, analysesAllowed, chatVars, wkVars, pfVars, envVars>>

PfNext ==
    \/ ProfileFocus
    \/ RefreshButton
    \/ PullToRefresh
    \/ \E r \in pending, resp \in ReportsResponses : fetchReportsResume(r, resp)
    \/ \E l \in ReportLists : \E i \in 1..Len(l) : handleReportItemPress(l[i])
    \/ ProfileCloseModal
    \/ \E started \in BOOLEAN : WebViewLoad(started)
    \/ \E kind \in {"ReportLoadError", "ReportResourceError"} : ProfileWebViewError(kind)

\* ------------------------------------------------------------------ system
State0 == ChatState0 /\ WkState0 /\ PfState0

Init ==
    /\ screen \in Screens
    /\ analysesAllowed = MaxAnalyses
    /\ State0
    /\ \/ ChatInit
       \/ WkInit
       \/ PfInit

Next == ChatNext \/ WkNext \/ PfNext

Spec == Init /\ [][Next]_vars

\* One screen at a time
InitChat == analysesAllowed = MaxAnalyses /\ State0 /\ ChatInit
SpecChat == InitChat /\ [][ChatNext]_vars
InitWorkouts == analysesAllowed = MaxAnalyses /\ State0 /\ WkInit
SpecWorkouts == InitWorkouts /\ [][WkNext]_vars
InitProfile == analysesAllowed = MaxAnalyses /\ State0 /\ PfInit
SpecProfile == InitProfile /\ [][PfNext]_vars
\* WorkoutsScreen with room for a third analysis
InitWorkoutsOverlap == analysesAllowed = MaxOverlappingAnalyses /\ State0 /\ WkInit
SpecWorkoutsOverlap == InitWorkoutsOverlap /\ [][WkNext]_vars
\* WorkoutsScreen with both collapsible sections toggled: the night section's
\* header (line 537) calls toggleWorkout('night')
NightSection == "night"
AllSections == WorkoutSections \cup {NightSection}
WkSectionsNext == WkNext \/ toggleWorkout(NightSection)
SpecWorkoutsSections == InitWorkouts /\ [][WkSectionsNext]_vars
\* WorkoutsScreen with the analyse buttons of two exercise cards: the squat
\* card (lines 681-688) beside the push-up card
SquatExercise == "squat"
WkExercisesNext == WkNext \/ openAnalysisModal(SquatExercise)
SpecWorkoutsExercises == InitWorkouts /\ [][WkExercisesNext]_vars

\* ------------------------------------------------------------------ properties
Last(s) == s[Len(s)]
NoFlags(m) == ~m.isError /\ ~m.isWarning /\ ~m.isLoading
\* The messages of hist created by handler invocation inv
OwnMessages(hist, inv) == SelectSeq(hist, LAMBDA m : m.inv = inv)
\* Characters the render's replacements look for
MarkupChars == {"*", "_", "#", "-", "+"} \cup Digits
HasNoMarkup(s) == \A i \in 1..Len(s) : s[i] \notin MarkupChars

\* A step in which sendMessage resumes with a success=true body
ChatSucceeds(r, data) == ChatResponse(r, data) /\ data.kind = "json" /\ data.success

\* C1 as claimed: when sendMessage resumes with a success=true body, the bot
\* message it appends has the body's message field as its text, no error,
\* warning or loading flag, and the text displayed for it equals that field.
C1_DisplayedEqualsResponse ==
    [][\A r \in pending, data \in ChatResponses :
          ChatSucceeds(r, data) =>
              LET reply == Last(chatHistory')
              IN /\ reply.inv = r.owner /\ reply.sender = "bot"
                 /\ reply.message = data.message
                 /\ NoFlags(reply)
                 /\ Displayed(reply) = data.message]_vars

\* C1 amended: when sendMessage resumes with a success=true body, the bot
\* message it appends has the body's message field as its text and no error,
\* warning or loading flag; the text displayed for it is that field after the
\* render's Markdown replacements, which is the field itself when it holds no
\* markup character.
C1_StoredEqualsResponse ==
    [][\A r \in pending, data \in ChatResponses :
          ChatSucceeds(r, data) =>
              LET reply == Last(chatHistory')
              IN /\ reply.inv = r.owner /\ reply.sender = "bot"
                 /\ reply.message = data.message
                 /\ NoFlags(reply)
                 /\ Displayed(reply) = DisplayText(data.message)
                 /\ HasNoMarkup(data.message) => Displayed(reply) = data.message]_vars

\* A bold heading reply is in the history, stored with its markers and displayed
\* without
C1_Witness ==
    \E i \in 1..Len(chatHistory) :
        /\ chatHistory[i].sender = "bot" /\ chatHistory[i].inv >= 1
        /\ NoFlags(chatHistory[i])
        /\ chatHistory[i].message = <<"#", " ", "*", "*", "a", "*", "*">>
        /\ Displayed(chatHistory[i]) = <<"a">>

\* C2: when a /chat request throws, or the mount-time /health check throws, the
\* handler appends exactly one isError message for that call, and afterwards the
\* history holds nothing else of that call but the user's own message: its
\* loading placeholder is gone.
C2_OneErrorMessagePerFailure ==
    [][/\ \A r \in pending, data \in ChatResponses :
            (ChatResponse(r, data) /\ data.kind = "throw") =>
                LET own == OwnMessages(chatHistory', r.owner)
                IN /\ Last(chatHistory').inv = r.owner /\ Last(chatHistory').isError
                   /\ Len(SelectSeq(OwnMessages(chatHistory, r.owner), LAMBDA m : m.isError)) = 0
                   /\ Len(SelectSeq(own, LAMBDA m : m.isError)) = 1
                   /\ \A i \in 1..Len(own) :
                          /\ ~own[i].isLoading
                          /\ own[i].isError \/ own[i].sender = "user"
       /\ \A r \in pending :
            ChatHealthResponse(r, "throw") =>
                /\ Len(chatHistory') = Len(chatHistory) + 1
                /\ OwnMessages(chatHistory', 0) = <<Last(chatHistory')>>
                /\ Last(chatHistory').isError /\ ~Last(chatHistory').isLoading]_vars

\* Both kinds of failure have happened: the history holds the error message of the
\* health check and the error message of a /chat call, and no placeholder
C2_Witness ==
    /\ \E i \in 1..Len(chatHistory) : chatHistory[i].inv = 0 /\ chatHistory[i].isError
    /\ \E i \in 1..Len(chatHistory) :
          /\ chatHistory[i].inv >= 1 /\ chatHistory[i].isError
          /\ chatHistory[i].message = ConnectionProblemText
    /\ \A i \in 1..Len(chatHistory) : ~chatHistory[i].isLoading

\* ---- steps in which a handler resumes from a failed network call: the fetch
\* ---- threw, timed out, answered non-2xx, or its body did not parse
ChatCallFails ==
    \E r \in pending, data \in ChatResponses : data.kind = "throw" /\ ChatResponse(r, data)
ChatHealthFails == \E r \in pending : ChatHealthResponse(r, "throw")
ApiCallFails ==
    \E r \in pending :
        \/ ApiTimeout(r)
        \/ \E res \in ApiOutcomes(r) : res.kind = "error" /\ ApiSettles(r, res)
ReportFetchFails ==
    \E r \in pending, outcome \in {"notok", "throw"} : ReportFetched(r, outcome)
FetchReportsFails ==
    \E r \in pending, resp \in ReportsResponses :
        resp.kind # "json" /\ fetchReportsResume(r, resp)
NetworkFailureStep ==
    ChatCallFails \/ ChatHealthFails \/ ApiCallFails \/ ReportFetchFails \/ FetchReportsFails

\* ---- steps in which a handler resumes from a call the server answered with
\* ---- success = false
RefusedStep ==
    \/ \E r \in pending, data \in ChatResponses :
            data.kind = "json" /\ ~data.success /\ ChatResponse(r, data)
    \/ \E r \in pending : \E res \in ApiOutcomes(r) :
            res.kind = "json" /\ r.endpoint = "/analyze-exercise" /\ ~res.data.success
            /\ ApiSettles(r, res)
    \/ \E r \in pending, resp \in ReportsResponses :
            resp.kind = "json" /\ ~(resp.success /\ resp.isArray) /\ fetchReportsResume(r, resp)

\* The step shows the user an alert, an error or warning bubble, or an error page
UserTold ==
    \/ alert' # Null
    \/ /\ chatHistory' # chatHistory
       /\ Last(chatHistory').isError \/ Last(chatHistory').isWarning
    \/ /\ reportHtml' # reportHtml /\ reportHtml' # Null
       /\ reportHtml'.kind \in {"loadFailed", "loadError"}

\* C3 as claimed: on every screen, the step that handles a failed network call
\* shows the user an alert or an inline error message.
C3_EveryFailureShown == [][NetworkFailureStep => UserTold]_vars

NoReportLink(res) == ~IsSet(res.report_path) /\ ~IsSet(res.report_url)

\* C4: whenever analysisResult has neither report_url nor report_path, the report
\* button is not offered, and no step opens the report modal, whatever
\* reportHtml holds.
C4_NoLinkNoReportAction ==
    [][(analysisResult' # Null /\ NoReportLink(analysisResult')) =>
          /\ ~ViewReportOffered'
          /\ ~ReportModalShown => ~ReportModalShown']_vars

\* A result without links is displayed while an earlier analysis's page is held
C4_Witness ==
    /\ ResultCardShown /\ NoReportLink(analysisResult)
    /\ reportHtml # Null /\ MainTouchable

IsMockResult(m, e) ==
    m.success /\ m.message = "MockData" /\ m.exercise_type = e /\ m.counter \in Nat

\* useTestVideo resumes from a request that threw, timed out or was answered
\* with success = false
UseTestVideoFails(r) ==
    /\ r.handler = "useTestVideo"
    /\ \/ ApiTimeout(r)
       \/ \E res \in ApiOutcomes(r) :
              ~(res.kind = "json" /\ res.data.success) /\ ApiSettles(r, res)

\* C5: every useTestVideo invocation whose request throws, times out or is
\* answered with success = false schedules a mock result for the requested
\* exercise type, with success = true and a counter that is a natural number;
\* when its timer fires, analysisResult is that result and showResult is true.
C5_MockFallback ==
    [][/\ \A r \in pending :
            UseTestVideoFails(r) =>
                /\ Len(mockTimers') = Len(mockTimers) + 1
                /\ IsMockResult(Last(mockTimers'), r.ctx.exercise)
                /\ Last(mockTimers').inv = r.owner
       /\ MockTimerFires =>
            /\ analysisResult' = Head(mockTimers)
            /\ IsMockResult(analysisResult', analysisResult'.exercise_type)
            /\ showResult']_vars

\* The second useTestVideo invocation has failed and its mock result is displayed
C5_Witness ==
    /\ analysisResult # Null /\ showResult
    /\ analysisResult.message = "MockData" /\ analysisResult.exercise_type = "pushup"
    /\ analysisResult.inv = 2
    /\ \E i, j \in 1..Len(sent) :
          /\ i # j
          /\ sent[i].endpoint = "/analyze-exercise"
          /\ sent[j] = [owner |-> 2, endpoint |-> "/analyze-exercise"]

\* C6 as claimed: at most one network call is outstanding at any time
C6_OneOutstandingCall == Cardinality({r \in pending : IsHttp(r)}) <= 1

\* C7: a step issues at most one request; no handler invocation sends twice to
\* the same endpoint; the step that handles a failed or refused call issues no
\* request; and a request is issued only by a step that starts a new handler
\* invocation or ends an await of the invocation that issues it.
C7_NoRetry ==
    [][/\ Len(sent') <= Len(sent) + 1
       /\ \A i, j \in 1..Len(sent') : i # j => sent'[i] # sent'[j]
       /\ sent' # sent =>
            /\ ~(NetworkFailureStep \/ RefusedStep)
            /\ \/ nextInv' = nextInv + 1 /\ Last(sent').owner = nextInv
               \/ \E r \in pending \ pending' : r.owner = Last(sent').owner]_vars

\* Two analyses were started after the health check, the last one failed with a
\* network error, and nothing is outstanding
C7_Witness ==
    /\ alert = [title |-> "Error", message |-> "NetworkError"]
    /\ Len(sent) = 3
    /\ pending = {}

\* C8 as claimed: every outstanding HTTP request has a timeout timer scheduled
C8_EveryRequestTimed == \A r \in pending : IsHttp(r) => r.id \in timers

\* C9: when apiRequest's timer fires, the request is no longer awaited and the
\* caller takes its failure path with the timeout error (uploadVideo alerts it
\* and clears isLoading, useTestVideo falls back to a mock result,
\* checkServerHealth alerts); a response of an abandoned request changes neither
\* analysisResult, showResult nor reportHtml; and no timer stays scheduled for a
\* request that is no longer awaited.
C9_TimeoutAbandons ==
    [][/\ \A r \in pending :
            ApiTimeout(r) =>
                /\ r \notin pending'
                /\ CASE r.handler = "uploadVideo" ->
                            /\ alert' = [title |-> "Error", message |-> "RequestTimeout"]
                            /\ ~isLoading_w'
                            /\ UNCHANGED <<analysisResult, showResult, reportHtml>>
                     [] r.handler = "useTestVideo" ->
                            /\ Len(mockTimers') = Len(mockTimers) + 1
                            /\ ~isLoading_w'
                            /\ UNCHANGED <<analysisResult, showResult>>
                     [] r.handler = "checkServerHealth" ->
                            /\ alert' = [title |-> "ConnectionError", message |-> "CannotConnect"]
                            /\ UNCHANGED wkVars
       /\ (abandoned' # abandoned /\ abandoned' \subseteq abandoned) =>
            UNCHANGED <<analysisResult, showResult, reportHtml>>
       /\ timers' \subseteq {q.id : q \in pending'}]_vars

\* An upload's request has just timed out: the timeout error is alerted, the
\* loading overlay is gone, no timer is left, and the server still works on it
C9_Witness ==
    /\ alert = [title |-> "Error", message |-> "RequestTimeout"]
    /\ \E r \in abandoned : r.handler = "uploadVideo" /\ r.endpoint = "/analyze-exercise"
    /\ ~isLoading_w /\ timers = {}

\* C10 as claimed: the ids of the messages in chatHistory are pairwise distinct
C10_IdsDistinct ==
    \A i, j \in 1..Len(chatHistory) : i # j => chatHistory[i].id # chatHistory[j].id

\* C11: in every reachable state the creation instants of the messages in
\* chatHistory are non-decreasing in array order, whatever the order in which
\* the replies of the requests in flight arrive.
C11_CreationTimesNonDecreasing ==
    \A i, j \in 1..Len(chatHistory) :
        i < j => chatHistory[i].created <= chatHistory[j].created

\* Two requests were in flight, the reply of the second arrived before the reply
\* of the first, and the clock moved on while they were outstanding
C11_Witness ==
    /\ \E i, j \in 1..Len(chatHistory) :
          /\ i < j
          /\ chatHistory[i].sender = "bot" /\ chatHistory[i].inv = 2
          /\ chatHistory[j].sender = "bot" /\ chatHistory[j].inv = 1
          /\ ~chatHistory[i].isLoading /\ ~chatHistory[j].isLoading
          /\ chatHistory[j].created > chatHistory[i].created
    /\ \E k \in 1..Len(chatHistory) :
          chatHistory[k].sender = "user" /\ chatHistory[k].created < Last(chatHistory).created

\* sendMessage returns at one of its two guards
SendBlocked == ~apiAvailable \/ trim(message) = NoText
ChatHealthDone == \A r \in pending : r.handler # "checkApiStatus"

\* C12: when checkApiStatus resumes, apiAvailable becomes true exactly when the
\* body's agent_status is "available" and false when the call threw, and it keeps
\* that value once the check is done; and in a state where apiAvailable is false
\* or the input is blank after trimming, no step issues a request or starts a
\* sendMessage invocation, and a sendMessage call leaves chatHistory, the input
\* text, isLoading and the outstanding requests as they are.
C12_HealthGatesSending ==
    [][/\ \A r \in pending, status \in HealthResponses :
            ChatHealthResponse(r, status) => apiAvailable' = (status = "available")
       /\ ChatHealthDone => apiAvailable' = apiAvailable
       /\ SendBlocked => sent' = sent /\ nextInv' = nextInv
       /\ (ChatSendBlank \/ ChatSendUnavailable) =>
            /\ SendBlocked
            /\ UNCHANGED <<chatHistory, message, isLoading_c, pending, sent>>]_vars

\* The health check has answered "unavailable", the user has typed a message
\* that is not blank and pressed send: the alert is up and nothing was sent
C12_Witness ==
    /\ ~apiAvailable /\ ChatHealthDone
    /\ \E i \in 1..Len(chatHistory) : chatHistory[i].isWarning
    /\ trim(message) # NoText
    /\ alert = [title |-> "ServiceUnavailable", message |-> "TryLater"]
    /\ Len(sent) = 1

\* C15: every message of chatHistory has at most one of isError, isWarning and
\* isLoading set, a user message has none of them, and renderAsPlainText is set
\* only on isError messages.
C15_OneVariantPerMessage ==
    \A i \in 1..Len(chatHistory) :
        LET m == chatHistory[i]
        IN /\ Cardinality({f \in {"isError", "isWarning", "isLoading"} : m[f]}) <= 1
           /\ m.sender = "user" => NoFlags(m) /\ ~m.renderAsPlainText
           /\ m.renderAsPlainText => m.isError

\* The history holds a message of each variant: the greeting, an error reply, a
\* loading placeholder and the health check's warning
C15_Witness ==
    /\ \E i \in 1..Len(chatHistory) : chatHistory[i].sender = "bot" /\ NoFlags(chatHistory[i])
    /\ \E i \in 1..Len(chatHistory) : chatHistory[i].isError /\ chatHistory[i].renderAsPlainText
    /\ \E i \in 1..Len(chatHistory) : chatHistory[i].isLoading
    /\ \E i \in 1..Len(chatHistory) : chatHistory[i].isWarning
    /\ \E i \in 1..Len(chatHistory) : chatHistory[i].sender = "user"

\* The messages of hist that invocation inv did not create
OtherMessages(hist, inv) == SelectSeq(hist, LAMBDA m : m.inv # inv)

\* C16: a sendMessage call that passes the guards appends the trimmed input as a
\* user message and then one loading placeholder, and clears the input; when its
\* request completes, whatever the outcome, its placeholder is removed and one
\* bot message is appended at the end, the other messages staying as they are;
\* whenever no /chat request is outstanding the history holds no loading
\* message; and every bot message of a sendMessage call stands after the user
\* message of that call.
C16_SendProtocol ==
    [][/\ ChatSend =>
            LET n == Len(chatHistory)
            IN /\ Len(chatHistory') = n + 2
               /\ SubSeq(chatHistory', 1, n) = chatHistory
               /\ chatHistory'[n + 1].sender = "user"
               /\ chatHistory'[n + 1].message = trim(message)
               /\ NoFlags(chatHistory'[n + 1])
               /\ chatHistory'[n + 2].sender = "bot" /\ chatHistory'[n + 2].isLoading
               /\ chatHistory'[n + 1].inv = nextInv /\ chatHistory'[n + 2].inv = nextInv
               /\ message' = NoText
       /\ \A r \in pending, data \in ChatResponses :
            ChatResponse(r, data) =>
                LET own == OwnMessages(chatHistory', r.owner)
                IN /\ Len(own) = 2
                   /\ own[1].sender = "user" /\ own[1].message = r.ctx.userMessage
                   /\ own[2].sender = "bot" /\ ~own[2].isLoading
                   /\ Last(chatHistory') = own[2]
                   /\ OtherMessages(chatHistory', r.owner) = OtherMessages(chatHistory, r.owner)
       /\ (\A r \in pending' : r.handler # "sendMessage") =>
            \A i \in 1..Len(chatHistory') : ~chatHistory'[i].isLoading
       /\ \A i \in 1..Len(chatHistory') :
            (chatHistory'[i].sender = "bot" /\ chatHistory'[i].inv >= 1) =>
                \E j \in 1..(i - 1) :
                    chatHistory'[j].sender = "user" /\ chatHistory'[j].inv = chatHistory'[i].inv]_vars

\* Two sendMessage calls overlapped and both have completed, one with a reply
\* and one with an error: nothing is outstanding and no placeholder is left
C16_Witness ==
    /\ pending = {} /\ nextInv = 3
    /\ Len(chatHistory) = 5
    /\ chatHistory[2].inv = 1 /\ chatHistory[3].inv = 2
    /\ NoFlags(chatHistory[4]) /\ chatHistory[5].isError
    /\ \A i \in 1..Len(chatHistory) : ~chatHistory[i].isLoading

\* s with the characters of cs taken out
RECURSIVE Without(_, _)
Without(s, cs) ==
    IF s = <<>> THEN <<>>
    ELSE (IF Head(s) \in cs THEN <<>> ELSE <<Head(s)>>) \o Without(Tail(s), cs)

\* C17: when sendMessage resumes with a parsed body whose success is false, it
\* appends exactly one bot message, with isError and renderAsPlainText set, whose
\* text is the apology prefix followed by the body's message without the
\* characters * _ # and backquote, or by the unknown-error text when the body
\* has no message.
C17_RefusalMessage ==
    [][\A r \in pending, data \in ChatResponses :
          (ChatResponse(r, data) /\ data.kind = "json" /\ ~data.success) =>
              LET reply == Last(chatHistory')
                  errors == SelectSeq(OwnMessages(chatHistory', r.owner), LAMBDA m : m.isError)
              IN /\ Len(chatHistory') = Len(chatHistory)
                 /\ reply.sender = "bot" /\ reply.inv = r.owner
                 /\ reply.isError /\ reply.renderAsPlainText
                 /\ ~reply.isWarning /\ ~reply.isLoading
                 /\ errors = <<reply>>
                 /\ reply.message =
                       ApologyPrefix \o
                       (IF data.hasMessage /\ data.message # NoText
                        THEN Without(data.message, {"*", "_", "#", Backquote})
                        ELSE UnknownErrorText)]_vars

\* Both refusals have been shown: one with the server's message, stripped of its
\* markers, and one with the unknown-error text
C17_Witness ==
    /\ \E i \in 1..Len(chatHistory) :
          /\ chatHistory[i].isError /\ chatHistory[i].renderAsPlainText
          /\ chatHistory[i].message = ApologyPrefix \o <<"e">>
    /\ \E i \in 1..Len(chatHistory) :
          /\ chatHistory[i].isError /\ chatHistory[i].renderAsPlainText
          /\ chatHistory[i].message = ApologyPrefix \o UnknownErrorText

\* A step in which an analysis delivers its result: uploadVideo or useTestVideo
\* resumes with a success = true body, or a mock result's timer fires
ResultDelivered ==
    \/ MockTimerFires /\ analysisResult' = Head(mockTimers)
    \/ \E r \in pending : \E res \in ApiOutcomes(r) :
          /\ r.endpoint = "/analyze-exercise" /\ res.kind = "json" /\ res.data.success
          /\ ApiSettles(r, res) /\ analysisResult' = res.data

\* C13: once analysisResult is non-null no step makes it null; a step changes it
\* only by delivering the success = true result of an analysis (server or mock);
\* closing the result card, opening or closing a modal, starting an upload, a
\* failed analysis and a WebView error leave it unchanged.
C13_ResultKeptUntilReplaced ==
    [][/\ analysisResult # Null => analysisResult' # Null
       /\ analysisResult' # analysisResult =>
            /\ analysisResult'.success /\ ResultDelivered
            /\ ~(\/ CloseResult \/ CloseModal \/ CloseReportModal \/ ViewReport
                 \/ \E e \in ExerciseTypes : openAnalysisModal(e)
                 \/ \E r \in pending : PickerResult(r, "asset")
                 \/ handleWebViewError \/ handleWebViewHttpError
                 \/ ApiCallFails \/ ReportFetchFails)]_vars

\* The first analysis's result is still held after a second upload, which reset
\* the report page when it started, was answered with success = false
C13_Witness ==
    /\ analysisResult # Null /\ analysisResult.inv = 1
    /\ reportHtml = Null /\ nextInv = 3
    /\ alert = [title |-> "AnalysisFailed", message |-> "ServerFailed"]

\* uploadVideo resumes from POST /analyze-exercise with a success = true body
UploadSucceeds(r, res) ==
    /\ r.handler = "uploadVideo" /\ r.endpoint = "/analyze-exercise"
    /\ res.kind = "json" /\ res.data.success
    /\ ApiSettles(r, res)

\* C18 as claimed: when uploadVideo has completed a successful analysis,
\* reportHtml is non-null if the result has a report_url (whatever the outcome of
\* fetching it) or only a report_path, and null if it has neither; and fetching
\* the report raises no alert and leaves the result in place.
C18_ReportPageFollowsLinks ==
    [][\A r \in pending :
          /\ \A res \in ApiOutcomes(r) :
                UploadSucceeds(r, res) =>
                    /\ alert' = Null /\ analysisResult' = res.data
                    /\ IsSet(res.data.report_url) => \E q \in pending' : q.endpoint = "report_url"
                    /\ (~IsSet(res.data.report_url) /\ IsSet(res.data.report_path)) =>
                           reportHtml' # Null
                    /\ NoReportLink(res.data) => reportHtml' = Null
          /\ \A outcome \in {"ok", "notok", "throw"} :
                ReportFetched(r, outcome) =>
                    /\ reportHtml' # Null
                    /\ alert' = Null /\ UNCHANGED <<analysisResult, showResult>>]_vars

\* uploadVideo ends on one of its failure paths: the file is missing or
\* getInfoAsync throws, the request throws, times out or is answered non-2xx, or
\* the body has success = false
UploadFails(r) ==
    \/ \E outcome \in {"missing", "throw"} : FileInfo(r, outcome)
    \/ /\ r.handler = "uploadVideo" /\ r.endpoint = "/analyze-exercise"
       /\ \/ ApiTimeout(r)
          \/ \E res \in ApiOutcomes(r) :
                ~(res.kind = "json" /\ res.data.success) /\ ApiSettles(r, res)

\* C19: when uploadVideo ends on a failure path, the step shows an alert, leaves
\* analysisResult and showResult unchanged, schedules no mock result, issues no
\* request, and leaves isLoading false with the call no longer outstanding.
C19_UploadFailureAlerts ==
    [][\A r \in pending :
          UploadFails(r) =>
              /\ alert' # Null /\ alert'.title \in {"Error", "AnalysisFailed"}
              /\ UNCHANGED <<analysisResult, showResult, mockTimers, sent>>
              /\ ~isLoading_w'
              /\ \A q \in pending' : q.owner # r.owner]_vars

\* With an earlier result on screen, an upload has just failed because its file
\* is missing
C19_Witness ==
    /\ alert = [title |-> "Error", message |-> "FileMissing"]
    /\ analysisResult # Null /\ showResult
    /\ ~isLoading_w /\ mockTimers = <<>> /\ pending = {}

\* fetchReports resumes with a 2xx response whose body has success = true and an
\* array as reports
ReportsOk(resp) == resp.kind = "json" /\ resp.success /\ resp.isArray

\* C14 as claimed: reports changes only when a successful fetch completes, and
\* then to the list that fetch returned.
C14_OnlySuccessChangesReports ==
    [][reports' # reports =>
          /\ lastResponse' # lastResponse \/ pending' # pending
          /\ ReportsOk(lastResponse') /\ reports' = lastResponse'.reports]_vars

\* C14 amended: reports changes only when a fetch completes, to the list that
\* fetch returned if it succeeded and to the empty list if it failed; pressing a
\* report, opening or closing the modal and the WebView's events leave it
\* unchanged, so it is always the list of the latest completed fetch if that
\* fetch succeeded, and the empty list otherwise.
C14_OnlyFetchCompletionChangesReports ==
    [][/\ reports' # reports =>
            /\ \E r \in pending : fetchReportsResume(r, lastResponse')
            /\ reports' = lastResponse'.reports \/ (~ReportsOk(lastResponse') /\ reports' = <<>>)
       /\ reports' \in ReportLists
       /\ reports' = IF lastResponse' # Null /\ ReportsOk(lastResponse')
                     THEN lastResponse'.reports ELSE <<>>
       /\ (\/ \E l \in ReportLists : \E i \in 1..Len(l) : handleReportItemPress(l[i])
           \/ ProfileCloseModal
           \/ \E started \in BOOLEAN : WebViewLoad(started)
           \/ \E kind \in {"ReportLoadError", "ReportResourceError"} : ProfileWebViewError(kind)
           \/ ProfileFocus \/ RefreshButton \/ PullToRefresh) => UNCHANGED reports]_vars

\* A report without URL was pressed: the alert is up and the fetched list is
\* still there
C14_Witness ==
    /\ Len(reports) = 2
    /\ alert = [title |-> "CannotOpenReport", message |-> "NoUrl"]
    /\ ~isReportModalVisible

\* C20: when fetchReports resumes, reports becomes the response's list if the
\* response is 2xx with success = true and an array as reports, and the empty
\* list on every other outcome; loading is false afterwards on every path.
C20_FetchDecidesReports ==
    [][\A r \in pending, resp \in ReportsResponses :
          fetchReportsResume(r, resp) =>
              /\ ReportsOk(resp) => reports' = resp.reports
              /\ ~ReportsOk(resp) => reports' = <<>>
              /\ ~loading'
              /\ r \notin pending']_vars

\* A refresh has completed with a failure after the list had been fetched: the
\* list is empty again and nothing is loading
C20_Witness ==
    /\ reports = <<>> /\ ~loading /\ pending = {}
    /\ lastResponse # Null /\ lastResponse.kind = "notok"
    /\ Len(sent) = 3 /\ nextInv = 3

\* The exercise type a step that schedules a mock result was asked for: the
\* argument of the useTestVideo call that resumes, or selectedExercise when a
\* button of the source modal calls simulateAnalysisResult
RequestedExercise ==
    IF \E r \in pending \ pending' : r.handler = "useTestVideo"
    THEN (CHOOSE r \in pending \ pending' : r.handler = "useTestVideo").ctx.exercise
    ELSE selectedExercise

\* C21: every mock result simulateAnalysisResult schedules has success = true,
\* the requested exercise type, an integer counter in 5..14, processed_frames
\* = 300 and at most two detected errors, each with an integer count in 1..5
\* and a type from the requested exercise's list (none when the type has no
\* list); the report page it stores lists exactly the errors of the result.
C21_MockResultShape ==
    [][Len(mockTimers') = Len(mockTimers) + 1 =>
          LET m == Last(mockTimers')
              list == possibleErrors(RequestedExercise)
          IN /\ m.success = TRUE
             /\ m.exercise_type = RequestedExercise
             /\ m.counter \in 5..14
             /\ m.processed_frames = 300
             /\ Len(m.errors_detected) <= 2
             /\ \A i \in 1..Len(m.errors_detected) :
                   /\ m.errors_detected[i].count \in 1..5
                   /\ \E j \in 1..Len(list) : m.errors_detected[i].type = list[j]
             /\ reportHtml' # Null
             /\ reportHtml'.kind = "mock"
             /\ reportHtml'.about = RequestedExercise
             /\ reportHtml'.items = m.errors_detected]_vars

\* A mock result with the largest counter and two detected errors is scheduled,
\* and the page held lists those two errors
C21_Witness ==
    /\ mockTimers # <<>>
    /\ Last(mockTimers).counter = 14
    /\ Len(Last(mockTimers).errors_detected) = 2
    /\ Last(mockTimers).errors_detected[2].count = 5
    /\ reportHtml # Null /\ reportHtml.items = Last(mockTimers).errors_detected

\* C22: at most one workout section is open at any time; toggling the section
\* that is open closes it, toggling any other section opens it (which closes
\* the one that was open); when the toggled section was open or none was open
\* the toggle moves between "none" and that section, so a second toggle of the
\* same section brings the earlier value back.
C22_ToggleWorkout ==
    [][/\ Cardinality({w \in AllSections : openWorkout' = w}) <= 1
       /\ openWorkout' \in AllSections \cup {NoWorkout}
       /\ \A w \in AllSections :
             toggleWorkout(w) =>
                /\ openWorkout = w => openWorkout' = NoWorkout
                /\ openWorkout # w => openWorkout' = w
                /\ openWorkout \in {NoWorkout, w} =>
                      openWorkout' \in {NoWorkout, w} \ {openWorkout}]_vars

\* The night section is open after the evening section had been (the source
\* modal can only have been opened from the evening section's cards)
C22_Witness ==
    /\ openWorkout = NightSection
    /\ selectedExercise \in ExerciseTypes
    /\ ~modalVisible

\* A step on which an analysis starts: uploadVideo begins for a picked video,
\* useTestVideo sends its request, or simulateAnalysisResult schedules a mock
AnalysisStarts ==
    \/ \E q \in pending' \ pending : q.endpoint = "getInfoAsync"
    \/ \E q \in pending' \ pending : q.handler = "useTestVideo"
    \/ Len(mockTimers') = Len(mockTimers) + 1

\* The picker or camera of invocation r returns without a video to upload
PickerGivesNothing(r) ==
    /\ r.endpoint = "picker"
    /\ r \notin pending'
    /\ \A q \in pending' : q.owner # r.owner

\* C23: on every step that starts an analysis (uploadVideo, useTestVideo or
\* simulateAnalysisResult) the source-selection modal is closed; when the
\* picker or camera returns without a video (cancelled, no asset, or failed)
\* nothing is uploaded and isLoading, analysisResult, reportHtml and
\* modalVisible keep their values.
C23_SourceModal ==
    [][/\ AnalysisStarts => ~modalVisible'
       /\ \A r \in pending :
             PickerGivesNothing(r) =>
                /\ UNCHANGED <<isLoading_w, analysisResult, reportHtml, modalVisible>>
                /\ sent' = sent
                /\ pending' = pending \ {r}
                /\ mockTimers' = mockTimers]_vars

\* The picker was cancelled: the source modal is still open, nothing was sent
\* beyond the health check and nothing is loading
C23_Witness ==
    /\ nextInv = 2 /\ modalVisible /\ ~isLoading_w
    /\ pending = {} /\ alert = Null
    /\ \A i \in 1..Len(sent) : sent[i].endpoint = "/health"
    /\ mockTimers = <<>> /\ analysisResult = Null

\* C24 as claimed: the exercise type sent to /analyze-exercise, and the
\* exercise_type of a mock result when it is made, is the exercise whose analyse
\* button most recently opened the source modal (selectedExercise, which only
\* openAnalysisModal writes)
C24_TypeIsLastOpened ==
    [][/\ \A q \in pending' \ pending :
             q.endpoint = "/analyze-exercise" => q.ctx.exercise = selectedExercise
       /\ Len(mockTimers') = Len(mockTimers) + 1 =>
             Last(mockTimers').exercise_type = selectedExercise]_vars

\* The messages of hist that are (or are not) loading placeholders
Placeholders(hist) == SelectSeq(hist, LAMBDA m : m.isLoading)
Lasting(hist) == SelectSeq(hist, LAMBDA m : ~m.isLoading)

C26_ReportOfDisplayedResult ==
    ((ViewReportOffered /\ MainTouchable) \/ ReportModalShown) =>
        reportHtml.inv = analysisResult.inv

\* An analysis has started and has neither stored its result nor reported its
\* failure: its file check or its request is awaited, or its mock result waits
\* for the timer
AnalysisInProgress ==
    \/ \E r \in pending : r.endpoint \in {"getInfoAsync", "/analyze-exercise"}
    \/ mockTimers # <<>>

\* C27 as claimed: isLoading is true while an analysis is in progress, the
\* delayed delivery of a mock result included, and false when nothing of an
\* analysis is outstanding (the fetch of a report page counts as outstanding)
C27_LoadingWhileAnalysing ==
    /\ AnalysisInProgress => isLoading_w
    /\ isLoading_w => AnalysisInProgress \/ \E r \in pending : r.endpoint = "report_url"

\* C28: showReportModal is true only while reportHtml and analysisResult are
\* both non-null; the step that starts an upload, the step that schedules a
\* mock result and the WebView's load error each leave showReportModal false.
C28_ReportModalHasPage ==
    [][/\ showReportModal' => reportHtml' # Null /\ analysisResult' # Null
       /\ (\E q \in pending' \ pending : q.endpoint = "getInfoAsync") => ~showReportModal'
       /\ Len(mockTimers') = Len(mockTimers) + 1 => ~showReportModal'
       /\ alert' = [title |-> "ReportLoadError", message |-> "CannotShowReport"] =>
             ~showReportModal']_vars

\* The report modal was open on a page and the WebView's load error closed it
C28_Witness ==
    /\ alert = [title |-> "ReportLoadError", message |-> "CannotShowReport"]
    /\ ~showReportModal
    /\ reportHtml # Null /\ analysisResult # Null /\ showResult

\* C29: isReportModalVisible is true only while currentReportUrl is a URL;
\* pressing a report that has no report_url shows the alert and changes
\* neither; and the step that hides the modal leaves isReportModalVisible
\* false and currentReportUrl null.
C29_ProfileModalHasUrl ==
    [][/\ isReportModalVisible' => IsSet(currentReportUrl')
       /\ \A l \in ReportLists : \A i \in 1..Len(l) :
             (~IsSet(l[i].report_url) /\ handleReportItemPress(l[i])) =>
                /\ alert' = [title |-> "CannotOpenReport", message |-> "NoUrl"]
                /\ UNCHANGED <<isReportModalVisible, currentReportUrl>>
       /\ (isReportModalVisible /\ ~isReportModalVisible') =>
             currentReportUrl' = NoUrl]_vars

\* A report was opened and its modal closed while the page was loading: the
\* modal is hidden and no URL is held
C29_Witness ==
    /\ ~isReportModalVisible /\ currentReportUrl = NoUrl
    /\ isWebViewLoading
    /\ Len(reports) = 2

\* C30 as claimed, its part that a state decides: loading is true whenever at
\* least one fetchReports call is outstanding
C30_LoadingWhileFetching ==
    (\E r \in pending : r.handler = "fetchReports") => loading

====
